---- MODULE Spec2Model ----
(***************************************************************************)
(* Model of the molecule service (src/src/molecules/service.py): a store   *)
(* of molecule records kept in insertion order, and the service's          *)
(* operations find_by_id, save, update, delete, get_substructures,         *)
(* get_is_substructure_of and process_csv_file, each taken as one step.    *)
(* A second set of actions takes the calls of two concurrent requests one  *)
(* repository access at a time, with the sessions they open and close.     *)
(* The repository, the request schema and the SMILES utilities are         *)
(* imported by service.py from modules that are not part of the sources;   *)
(* they are modelled from the specification (sections 4.1 and 4.2).        *)
(***************************************************************************)
EXTENDS Integers, Sequences, FiniteSets, TLC

VARIABLES store, nextId, deleted, last, calls

vars == <<store, nextId, deleted, last, calls>>

-----------------------------------------------------------------------------
(* Bounds of the model *)

\* ids are handed out while nextId < MaxId: a call that would hand out
\* more is not taken
MaxId == 2

\* largest number of data rows in an imported file
MaxRows == 1

\* largest number of data rows in a file of the import's own specification
MaxFileRows == 2

\* ids handed out in the specification of the paginated listing
MaxStored == 3

\* pages asked for are 0..MaxPage, page sizes 1..MaxPageSize
MaxPage == 1

MaxPageSize == 2

\* ids handed out in the specifications of the concurrent calls
MaxStepIds == 2

-----------------------------------------------------------------------------
(* Values *)

\* absent optional field (Python None)
None == "None"

\* The notations used as inputs: three that parse, one of them contained
\* in another, one unrelated to both, and one that does not parse.
ValidNotations == {"C", "CC", "O"}

InvalidNotations == {"C("}

Notations == ValidNotations \cup InvalidNotations

\* name and description of a request: both absent, or both given
Labels == {<<None, None>>, <<"n1", "d1">>}

Ids == 0..MaxId

\* MoleculeRequest(smiles, name, description)
MoleculeRequest(s, n, d) == [smiles |-> s, name |-> n, description |-> d]

Requests == {MoleculeRequest(s, l[1], l[2]) : s \in Notations, l \in Labels}

NoRequest == MoleculeRequest(None, None, None)

-----------------------------------------------------------------------------
(* Structural validator and matcher (external capability, spec 4.1) *)

\* The parsed form of a notation: the set of its structural features.
Features(s) ==
    CASE s = "C"  -> {"c1"}
      [] s = "CC" -> {"c1", "c2"}
      [] s = "O"  -> {"o1"}
      [] OTHER    -> {}

is_valid_smiles(s) == s \in ValidNotations

\* target.HasSubstructMatch(pattern): pattern is contained in target
HasSubstructMatch(target, pattern) == Features(pattern) \subseteq Features(target)

-----------------------------------------------------------------------------
(* Record store (repository, spec 4.2) *)

RepoFindById(st, id) == SelectSeq(st, LAMBDA r : r.molecule_id = id)

RepoFilter(st, s) == SelectSeq(st, LAMBDA r : r.smiles = s)

RepoFindAll(st) == st

\* the zero-indexed page of page_size records, in insertion order
RepoFindAllPage(st, page, page_size) ==
    LET first == page * page_size + 1
        end == IF (page + 1) * page_size < Len(st)
               THEN (page + 1) * page_size ELSE Len(st)
    IN  IF first > end THEN <<>> ELSE SubSeq(st, first, end)

RepoSave(st, id, fields) ==
    Append(st, [molecule_id |-> id, smiles |-> fields.smiles,
                name |-> fields.name, description |-> fields.description])

RepoUpdate(st, id, fields) ==
    [i \in DOMAIN st |->
        IF st[i].molecule_id = id
        THEN [molecule_id |-> id, smiles |-> fields.smiles,
              name |-> fields.name, description |-> fields.description]
        ELSE st[i]]

RepoDelete(st, id) == SelectSeq(st, LAMBDA r : r.molecule_id # id)

-----------------------------------------------------------------------------
(* Service operations as functions of the store: each yields the error     *)
(* raised ("ok" when none), the store afterwards and the value returned.   *)

Outcome(e, st, v, c) ==
    [err |-> e, store |-> st, value |-> v, count |-> c, missing |-> {}]

exists_by_id(st, id) == Len(RepoFindById(st, id)) > 0

find_by_id(st, id) ==
    IF ~exists_by_id(st, id)
    THEN Outcome("UnknownIdentifier", st, <<>>, 0)
    ELSE Outcome("ok", st, RepoFindById(st, id), 0)

\* save's check off by one: a duplicate only when two records have the smiles
SaveIsDuplicate_OffByOne(st, req) == Len(RepoFilter(st, req.smiles)) > 1

SaveIsDuplicate(st, req) == Len(RepoFilter(st, req.smiles)) > 0

\* save that passes smiles and name on and lets the description go
save_DropsDescription(st, nid, req) ==
    IF SaveIsDuplicate(st, req)
    THEN Outcome("DuplicateSmiles", st, <<>>, 0)
    ELSE LET st2 == RepoSave(st, nid, MoleculeRequest(req.smiles, req.name, None))
         IN  Outcome("ok", st2, <<st2[Len(st2)]>>, 0)

\* save that inserts and looks for duplicates afterwards
save_CheckAfterInsert(st, nid, req) ==
    LET st2 == RepoSave(st, nid, req)
    IN  IF Len(RepoFilter(st2, req.smiles)) > 1
        THEN Outcome("DuplicateSmiles", st2, <<>>, 0)
        ELSE Outcome("ok", st2, <<st2[Len(st2)]>>, 0)

\* save that numbers the new record by the count of stored records
save_IdFromCount(st, nid, req) ==
    IF SaveIsDuplicate(st, req)
    THEN Outcome("DuplicateSmiles", st, <<>>, 0)
    ELSE LET st2 == RepoSave(st, Len(st), req)
         IN  Outcome("ok", st2, <<st2[Len(st2)]>>, 0)

save(st, nid, req) ==
    IF SaveIsDuplicate(st, req)
    THEN Outcome("DuplicateSmiles", st, <<>>, 0)
    ELSE LET st2 == RepoSave(st, nid, req)
         IN  Outcome("ok", st2, <<st2[Len(st2)]>>, 0)

\* update's check without the comparison of ids
UpdateIsDuplicate_IgnoresId(st, id, req) == Len(RepoFilter(st, req.smiles)) > 0

UpdateIsDuplicate(st, id, req) ==
    LET same_smiles == RepoFilter(st, req.smiles)
    IN  Len(same_smiles) > 0 /\ same_smiles[1].molecule_id # id

\* update that looks for duplicates before it looks for the record
update_DuplicateFirst(st, id, req) ==
    IF UpdateIsDuplicate(st, id, req)
    THEN Outcome("DuplicateSmiles", st, <<>>, 0)
    ELSE IF ~exists_by_id(st, id)
    THEN Outcome("UnknownIdentifier", st, <<>>, 0)
    ELSE LET st2 == RepoUpdate(st, id, req)
         IN  Outcome("ok", st2, RepoFindById(st2, id), 0)

update(st, id, req) ==
    IF ~exists_by_id(st, id)
    THEN Outcome("UnknownIdentifier", st, <<>>, 0)
    ELSE IF UpdateIsDuplicate(st, id, req)
    THEN Outcome("DuplicateSmiles", st, <<>>, 0)
    ELSE LET st2 == RepoUpdate(st, id, req)
         IN  Outcome("ok", st2, RepoFindById(st2, id), 0)

\* find_all that always asks the repository for the first page
find_all_IgnoresPage(st, page, page_size) ==
    Outcome("ok", st, RepoFindAllPage(st, 0, page_size), 0)

find_all(st, page, page_size) ==
    Outcome("ok", st, RepoFindAllPage(st, page, page_size), 0)

\* delete without the existence check
delete_NoExistenceCheck(st, id) == Outcome("ok", RepoDelete(st, id), <<>>, 0)

delete(st, id) ==
    IF ~exists_by_id(st, id)
    THEN Outcome("UnknownIdentifier", st, <<>>, 0)
    ELSE Outcome("ok", RepoDelete(st, id), <<>>, 0)

\* molecule.to_chem() of a stored record: there is no structural handle
\* for a notation that does not parse, and the match against it raises.
ToChemFails(st) == \E i \in DOMAIN st : ~is_valid_smiles(st[i].smiles)

\* get_substructures with the two sides of the match exchanged
get_substructures_Reversed(st, smiles) ==
    IF ~is_valid_smiles(smiles)
    THEN Outcome("InvalidSmiles", st, <<>>, 0)
    ELSE IF ToChemFails(RepoFindAll(st))
    THEN Outcome("ChemFault", st, <<>>, 0)
    ELSE Outcome("ok", st,
                 SelectSeq(RepoFindAll(st),
                           LAMBDA molecule : HasSubstructMatch(molecule.smiles, smiles)),
                 0)

get_substructures(st, smiles) ==
    IF ~is_valid_smiles(smiles)
    THEN Outcome("InvalidSmiles", st, <<>>, 0)
    ELSE IF ToChemFails(RepoFindAll(st))
    THEN Outcome("ChemFault", st, <<>>, 0)
    ELSE Outcome("ok", st,
                 SelectSeq(RepoFindAll(st),
                           LAMBDA molecule : HasSubstructMatch(smiles, molecule.smiles)),
                 0)

\* get_is_substructure_of without the validation of the query
get_is_substructure_of_NoValidation(st, smiles) ==
    IF ToChemFails(RepoFindAll(st))
    THEN Outcome("ChemFault", st, <<>>, 0)
    ELSE Outcome("ok", st,
                 SelectSeq(RepoFindAll(st),
                           LAMBDA molecule : HasSubstructMatch(molecule.smiles, smiles)),
                 0)

\* get_is_substructure_of that puts each match in front of the earlier ones
get_is_substructure_of_Prepends(st, smiles) ==
    IF ~is_valid_smiles(smiles)
    THEN Outcome("InvalidSmiles", st, <<>>, 0)
    ELSE IF ToChemFails(RepoFindAll(st))
    THEN Outcome("ChemFault", st, <<>>, 0)
    ELSE LET m == SelectSeq(RepoFindAll(st),
                            LAMBDA molecule : HasSubstructMatch(molecule.smiles, smiles))
         IN  Outcome("ok", st, [i \in 1..Len(m) |-> m[Len(m) + 1 - i]], 0)

get_is_substructure_of(st, smiles) ==
    IF ~is_valid_smiles(smiles)
    THEN Outcome("InvalidSmiles", st, <<>>, 0)
    ELSE IF ToChemFails(RepoFindAll(st))
    THEN Outcome("ChemFault", st, <<>>, 0)
    ELSE Outcome("ok", st,
                 SelectSeq(RepoFindAll(st),
                           LAMBDA molecule : HasSubstructMatch(molecule.smiles, smiles)),
                 0)

required_columns == {"smiles", "name"}

\* __validate_csv_header_columns: the required columns the header lacks
MissingColumns(columns) == required_columns \ columns

\* The loop over the data rows: a row that does not validate, or whose save
\* raises, is skipped; every other row is saved and counted.
\* the loop leaving at the first row that fails
RECURSIVE ProcessRows_StopsAtFailure(_, _, _, _)
ProcessRows_StopsAtFailure(st, nid, rows, added) ==
    IF rows = <<>>
    THEN [store |-> st, count |-> added]
    ELSE LET row == Head(rows)
             o == save(st, nid, MoleculeRequest(row.smiles, row.name, None))
         IN  IF ~is_valid_smiles(row.smiles) \/ o.err # "ok"
             THEN [store |-> st, count |-> added]
             ELSE ProcessRows_StopsAtFailure(o.store, nid + 1, Tail(rows), added + 1)

RECURSIVE ProcessRows(_, _, _, _)
ProcessRows(st, nid, rows, added) ==
    IF rows = <<>>
    THEN [store |-> st, count |-> added]
    ELSE LET row == Head(rows)
             o == save(st, nid, MoleculeRequest(row.smiles, row.name, None))
         IN  IF ~is_valid_smiles(row.smiles) \/ o.err # "ok"
             THEN ProcessRows(st, nid, Tail(rows), added)
             ELSE ProcessRows(o.store, nid + 1, Tail(rows), added + 1)

process_csv_file(st, nid, header, rows) ==
    IF ~header.present
    THEN Outcome("TypeError", st, <<>>, 0)
    ELSE IF MissingColumns(header.columns) # {}
    THEN [Outcome("InvalidCsvHeaderColumns", st, <<>>, 0)
            EXCEPT !.missing = MissingColumns(header.columns)]
    ELSE LET r == ProcessRows(st, nid, rows, 0)
         IN  Outcome("ok", r.store, <<>>, r.count)

-----------------------------------------------------------------------------
(* Inputs of the import *)

\* A file with no line at all has no header (fieldnames is None).
Headers ==
    {[present |-> TRUE, columns |-> c] :
        c \in {{"smiles", "name"}, {"smiles", "description"}}}
    \cup {[present |-> FALSE, columns |-> {}]}

CsvNames == {"n1"}

CsvRow == [smiles : Notations, name : CsvNames]

RECURSIVE SeqsUpTo(_, _)
SeqsUpTo(S, n) ==
    IF n = 0 THEN {<<>>}
    ELSE LET shorter == SeqsUpTo(S, n - 1)
         IN  shorter \cup {Append(q, x) : q \in shorter, x \in S}

CsvFiles == SeqsUpTo(CsvRow, MaxRows)

\* The longer files: rows that parse, repeat each other or do not parse.
FileNotations == {"C", "CC", "C("}

LongCsvFiles == SeqsUpTo([smiles : FileNotations, name : CsvNames], MaxFileRows)

NoHeader == [present |-> FALSE, columns |-> {}]

-----------------------------------------------------------------------------
(* State machine *)

NoLast == [op |-> "init", id |-> -1, req |-> NoRequest, arg |-> None,
           pre |-> <<>>, err |-> "ok", value |-> <<>>, count |-> 0,
           missing |-> {}, header |-> NoHeader, page |-> -1, page_size |-> 0]

Record(op, id, req, arg, o) ==
    [op |-> op, id |-> id, req |-> req, arg |-> arg,
     pre |-> store, err |-> o.err, value |-> o.value, count |-> o.count,
     missing |-> o.missing, header |-> NoHeader, page |-> -1, page_size |-> 0]

\* The requests in flight
Procs == {"p1", "p2"}

NoCall == [op |-> "none", id |-> -1, smiles |-> None, pc |-> "idle",
           open |-> 0, opened |-> 0, err |-> "ok", ret |-> TRUE,
           conflict |-> FALSE]

Init ==
    /\ store = <<>>
    /\ nextId = 0
    /\ deleted = {}
    /\ last = NoLast
    /\ calls = [p \in Procs |-> NoCall]

FindById(id) ==
    LET o == find_by_id(store, id)
    IN  /\ last' = Record("find_by_id", id, NoRequest, None, o)
        /\ store' = o.store
        /\ UNCHANGED <<nextId, deleted, calls>>

\* save, taken while it hands out an id below cap
SaveWithin(cap, req) ==
    LET o == save(store, nextId, req)
    IN  /\ o.err = "ok" => nextId < cap
        /\ last' = Record("save", -1, req, None, o)
        /\ store' = o.store
        /\ nextId' = IF o.err = "ok" THEN nextId + 1 ELSE nextId
        /\ UNCHANGED <<deleted, calls>>

Save(req) == SaveWithin(MaxId, req)

FindAll(page, page_size) ==
    LET o == find_all(store, page, page_size)
    IN  /\ last' = [Record("find_all", -1, NoRequest, None, o)
                       EXCEPT !.page = page, !.page_size = page_size]
        /\ store' = o.store
        /\ UNCHANGED <<nextId, deleted, calls>>

Update(id, req) ==
    LET o == update(store, id, req)
    IN  /\ last' = Record("update", id, req, None, o)
        /\ store' = o.store
        /\ UNCHANGED <<nextId, deleted, calls>>

Delete(id) ==
    LET o == delete(store, id)
    IN  /\ last' = Record("delete", id, NoRequest, None, o)
        /\ store' = o.store
        /\ deleted' = IF o.err = "ok" THEN deleted \cup {id} ELSE deleted
        /\ UNCHANGED <<nextId, calls>>

GetSubstructures(smiles) ==
    LET o == get_substructures(store, smiles)
    IN  /\ last' = Record("get_substructures", -1, NoRequest, smiles, o)
        /\ store' = o.store
        /\ UNCHANGED <<nextId, deleted, calls>>

GetIsSubstructureOf(smiles) ==
    LET o == get_is_substructure_of(store, smiles)
    IN  /\ last' = Record("get_is_substructure_of", -1, NoRequest, smiles, o)
        /\ store' = o.store
        /\ UNCHANGED <<nextId, deleted, calls>>

ProcessCsvFile(header, rows) ==
    LET o == process_csv_file(store, nextId, header, rows)
    IN  /\ header.present \/ rows = <<>>
        /\ nextId + o.count <= MaxId
        /\ last' = [Record("process_csv_file", -1, NoRequest, None, o)
                       EXCEPT !.value = rows, !.header = header]
        /\ store' = o.store
        /\ nextId' = nextId + o.count
        /\ UNCHANGED <<deleted, calls>>

Next ==
    \/ \E id \in Ids : FindById(id)
    \/ \E req \in Requests : Save(req)
    \/ \E id \in Ids, req \in Requests : Update(id, req)
    \/ \E id \in Ids : Delete(id)
    \/ \E smiles \in Notations : GetSubstructures(smiles)
    \/ \E smiles \in Notations : GetIsSubstructureOf(smiles)
    \/ \E header \in Headers, rows \in CsvFiles : ProcessCsvFile(header, rows)
    \/ \E page \in 0..MaxPage, page_size \in 1..MaxPageSize : FindAll(page, page_size)

Spec == Init /\ [][Next]_vars

\* The import on its own: saves fill the store, files of several rows are
\* imported into it.
NextImport ==
    \/ \E req \in Requests : Save(req)
    \/ \E header \in Headers, rows \in LongCsvFiles : ProcessCsvFile(header, rows)

SpecImport == Init /\ [][NextImport]_vars

\* The paginated listing on its own, over stores of up to MaxStored records.
NextPages ==
    \/ \E req \in Requests : SaveWithin(MaxStored, req)
    \/ \E id \in 0..MaxStored : Delete(id)
    \/ \E page \in 0..MaxPage, page_size \in 1..MaxPageSize : FindAll(page, page_size)

SpecPages == Init /\ [][NextPages]_vars

-----------------------------------------------------------------------------
(* The calls of concurrent requests, one repository access at a time.      *)
(* Each access sees the store as committed at that moment.                 *)

\* the store's uniqueness constraint on smiles (spec 6; "the database will
\* raise an exception", save's docstring): writing s to the record id, or
\* to a new record (id -1), is refused when another record has s
UniqueViolation_Off(st, id, s) == FALSE

UniqueViolation(st, id, s) ==
    \E i \in DOMAIN st : st[i].smiles = s /\ st[i].molecule_id # id

\* exists_by_id opens a session of its own inside the caller's: one more
\* session for each operation that calls it
NestedSessions_None(op) == 0

NestedSessions(op) ==
    IF op \in {"find_by_id", "update", "delete"} THEN 1 ELSE 0

StepNotations == {"C", "CC"}

StepIds == 0..MaxStepIds

Call(op, id, s) == [op |-> op, id |-> id, smiles |-> s]

WriteCalls ==
    {Call("save", -1, s) : s \in StepNotations}
    \cup {Call("update", id, s) : id \in StepIds, s \in StepNotations}

ByIdCalls ==
    {Call("find_by_id", id, None) : id \in StepIds}
    \cup {Call("delete", id, None) : id \in StepIds}

ScanCalls ==
    {Call("find_all", -1, None), Call("get_substructures", -1, "C"),
     Call("get_is_substructure_of", -1, "C")}

StepCalls == WriteCalls \cup ByIdCalls \cup ScanCalls

InFlight(c) == c.pc \notin {"idle", "done"}

\* the call leaves its with block, by return or by exception: the session
\* it holds is closed
Finish(c, e) == [c EXCEPT !.pc = "done", !.err = e, !.open = c.open - 1]

\* a request arrives: the call enters its with block and opens its session
Begin(p, c) ==
    /\ ~InFlight(calls[p])
    /\ c.op = "save"
       => nextId + Cardinality({q \in Procs : InFlight(calls[q]) /\ calls[q].op = "save"})
             < MaxStepIds
    /\ calls' = [calls EXCEPT ![p] =
                    [op |-> c.op, id |-> c.id, smiles |-> c.smiles, pc |-> "entered",
                     open |-> 1, opened |-> 1, err |-> "ok", ret |-> TRUE,
                     conflict |-> FALSE]]
    /\ UNCHANGED <<store, nextId, deleted, last>>

\* if not self.exists_by_id(obj_id): raise UnknownIdentifierException
ExistsStep(p) ==
    LET c == calls[p]
        c2 == [c EXCEPT !.opened = c.opened + NestedSessions(c.op)]
    IN  /\ c.pc = "entered"
        /\ c.op \in {"find_by_id", "update", "delete"}
        /\ calls' = [calls EXCEPT ![p] =
                        IF exists_by_id(store, c.id)
                        THEN [c2 EXCEPT !.pc = "checked"]
                        ELSE Finish(c2, "UnknownIdentifier")]
        /\ UNCHANGED <<store, nextId, deleted, last>>

\* mol = repository.find_by_id(...); return mol.to_response()
FetchStep(p) ==
    LET c == calls[p]
    IN  /\ c.pc = "checked"
        /\ c.op = "find_by_id"
        /\ calls' = [calls EXCEPT ![p] =
                        IF RepoFindById(store, c.id) = <<>>
                        THEN Finish(c, "AttributeError")
                        ELSE Finish(c, "ok")]
        /\ UNCHANGED <<store, nextId, deleted, last>>

\* same_smiles = repository.filter(smiles=...) and the test on it
FilterStep(p) ==
    LET c == calls[p]
        req == MoleculeRequest(c.smiles, None, None)
    IN  /\ \/ c.op = "save" /\ c.pc = "entered"
           \/ c.op = "update" /\ c.pc = "checked"
        /\ calls' = [calls EXCEPT ![p] =
                        IF \/ c.op = "save" /\ SaveIsDuplicate(store, req)
                           \/ c.op = "update" /\ UpdateIsDuplicate(store, c.id, req)
                        THEN Finish(c, "DuplicateSmiles")
                        ELSE [c EXCEPT !.pc = "filtered"]]
        /\ UNCHANGED <<store, nextId, deleted, last>>

\* mol = repository.save(...) or repository.update(...); mol.to_response()
WriteStep(p) ==
    LET c == calls[p]
        req == MoleculeRequest(c.smiles, None, None)
        held == \E r \in {store[i] : i \in DOMAIN store} :
                    r.smiles = c.smiles /\ r.molecule_id # c.id
        e == IF c.op = "update" /\ RepoFindById(store, c.id) = <<>>
             THEN "AttributeError"
             ELSE IF UniqueViolation(store, c.id, c.smiles)
             THEN "IntegrityError"
             ELSE "ok"
    IN  /\ c.pc = "filtered"
        /\ calls' = [calls EXCEPT ![p] = Finish([c EXCEPT !.conflict = held], e)]
        /\ store' = IF e # "ok" THEN store
                    ELSE IF c.op = "save" THEN RepoSave(store, nextId, req)
                    ELSE RepoUpdate(store, c.id, req)
        /\ nextId' = IF e = "ok" /\ c.op = "save" THEN nextId + 1 ELSE nextId
        /\ UNCHANGED <<deleted, last>>

\* return repository.delete(session, obj_id)
RemoveStep(p) ==
    LET c == calls[p]
        there == exists_by_id(store, c.id)
    IN  /\ c.pc = "checked"
        /\ c.op = "delete"
        /\ calls' = [calls EXCEPT ![p] = Finish([c EXCEPT !.ret = there], "ok")]
        /\ store' = RepoDelete(store, c.id)
        /\ deleted' = IF there THEN deleted \cup {c.id} ELSE deleted
        /\ UNCHANGED <<nextId, last>>

\* find_all and the two searches: one pass over the repository
ScanStep(p) ==
    LET c == calls[p]
        e == CASE c.op = "find_all" -> find_all(store, 0, 1).err
               [] c.op = "get_substructures" -> get_substructures(store, c.smiles).err
               [] OTHER -> get_is_substructure_of(store, c.smiles).err
    IN  /\ c.pc = "entered"
        /\ c.op \in {"find_all", "get_substructures", "get_is_substructure_of"}
        /\ calls' = [calls EXCEPT ![p] = Finish(c, e)]
        /\ UNCHANGED <<store, nextId, deleted, last>>

NextSteps ==
    \E p \in Procs :
        \/ \E c \in StepCalls : Begin(p, c)
        \/ ExistsStep(p)
        \/ FetchStep(p)
        \/ FilterStep(p)
        \/ WriteStep(p)
        \/ RemoveStep(p)
        \/ ScanStep(p)

SpecSteps == Init /\ [][NextSteps]_vars

-----------------------------------------------------------------------------
(* Vocabulary of the properties *)

Range(q) == {q[i] : i \in DOMAIN q}

SmilesOf(st) == {st[i].smiles : i \in DOMAIN st}

IdsOf(st) == {st[i].molecule_id : i \in DOMAIN st}

AllParse(st) == \A i \in DOMAIN st : is_valid_smiles(st[i].smiles)

\* the record of st with the given id, as a set (empty when there is none)
WithId(st, id) == {r \in Range(st) : r.molecule_id = id}

-----------------------------------------------------------------------------
(* C1 *)

\* C1: in every reachable state no two stored records have equal smiles.
C1_UniqueNotation ==
    \A i, j \in DOMAIN store : i # j => store[i].smiles # store[j].smiles

\* a second record is stored and a write that would have duplicated a
\* notation has just been refused
C1_Witness ==
    /\ Len(store) = 2
    /\ last.op \in {"save", "update"}
    /\ last.err = "DuplicateSmiles"

(* C2 *)

\* C2: in every reachable state every stored record has a notation the
\* validator accepts.
C2_AllStoredValid == AllParse(store)

(* C3 *)

\* C3: a save of a valid notation that no stored record has succeeds and
\* returns one record with the request's smiles, name and description and an
\* id no stored record had; find_by_id of that id, applied to the state the
\* save leaves, returns that record.
C3_SaveThenFind ==
    (last.op = "save" /\ is_valid_smiles(last.req.smiles)
        /\ last.req.smiles \notin SmilesOf(last.pre))
    => /\ last.err = "ok"
       /\ Len(last.value) = 1
       /\ last.value[1].molecule_id \notin IdsOf(last.pre)
       /\ LET f == find_by_id(store, last.value[1].molecule_id)
          IN  /\ f.err = "ok"
              /\ Len(f.value) = 1
              /\ f.value[1].molecule_id = last.value[1].molecule_id
              /\ f.value[1].smiles = last.req.smiles
              /\ f.value[1].name = last.req.name
              /\ f.value[1].description = last.req.description

\* a valid notation with a name and a description has just been saved into
\* a store that already held another record
C3_Witness ==
    /\ last.op = "save"
    /\ last.err = "ok"
    /\ is_valid_smiles(last.req.smiles)
    /\ last.req.name # None
    /\ Len(last.pre) = 1

(* C4 *)

\* C4: a save whose smiles equals that of a stored record raises
\* DuplicateSmiles, returns nothing and leaves the store as it was; and
\* right after a successful save, saving the same request again raises
\* DuplicateSmiles and leaves the store as it is.
C4_DuplicateSaveFails ==
    /\ (last.op = "save" /\ last.req.smiles \in SmilesOf(last.pre))
       => /\ last.err = "DuplicateSmiles"
          /\ last.value = <<>>
          /\ store = last.pre
    /\ (last.op = "save" /\ last.err = "ok")
       => LET again == save(store, nextId, last.req)
          IN  again.err = "DuplicateSmiles" /\ again.store = store

\* a save of a notation that a stored record already has
C4_Witness ==
    /\ last.op = "save"
    /\ last.req.smiles \in SmilesOf(last.pre)
    /\ Len(last.pre) = 2

(* C5 *)

\* C5: find_by_id, update and delete of an id that no stored record has
\* raise UnknownIdentifier and leave the store as it was, whatever the
\* request of the update is.
C5_UnknownIdentifier ==
    (last.op \in {"find_by_id", "update", "delete"}
        /\ last.id \notin IdsOf(last.pre))
    => /\ last.err = "UnknownIdentifier"
       /\ store = last.pre

\* an update of an absent id whose smiles is that of a stored record
C5_Witness ==
    /\ last.op = "update"
    /\ last.id \notin IdsOf(last.pre)
    /\ last.req.smiles \in SmilesOf(last.pre)

(* C6 *)

\* C6: a delete of a stored id succeeds and leaves the store as it was with
\* exactly that record taken out; and in every state, for every id deleted
\* so far, no stored record has it and find_by_id, update (with any request)
\* and delete of it raise UnknownIdentifier.
C6_DeleteIsFinal ==
    /\ (last.op = "delete" /\ last.id \in IdsOf(last.pre))
       => /\ last.err = "ok"
          /\ \E k \in DOMAIN last.pre :
                /\ last.pre[k].molecule_id = last.id
                /\ store = SubSeq(last.pre, 1, k - 1)
                             \o SubSeq(last.pre, k + 1, Len(last.pre))
    /\ \A id \in deleted :
          /\ id \notin IdsOf(store)
          /\ find_by_id(store, id).err = "UnknownIdentifier"
          /\ delete(store, id).err = "UnknownIdentifier"
          /\ \A req \in Requests : update(store, id, req).err = "UnknownIdentifier"

\* a record was deleted and a record was saved after that
C6_Witness ==
    /\ deleted # {}
    /\ store # <<>>
    /\ last.op = "save"
    /\ last.err = "ok"

(* C7 *)

\* C7: an update of a stored id raises DuplicateSmiles and changes nothing
\* when a record with another id has the request's smiles; otherwise it
\* succeeds, gives the record of that id the request's smiles, name and
\* description, keeps its id and position, and leaves every other record as
\* it was.
C7_Update ==
    (last.op = "update" /\ last.id \in IdsOf(last.pre))
    => IF \E r \in Range(last.pre) :
             r.smiles = last.req.smiles /\ r.molecule_id # last.id
       THEN last.err = "DuplicateSmiles" /\ store = last.pre
       ELSE /\ last.err = "ok"
            /\ Len(store) = Len(last.pre)
            /\ \A i \in DOMAIN last.pre :
                  IF last.pre[i].molecule_id = last.id
                  THEN /\ store[i].molecule_id = last.id
                       /\ store[i].smiles = last.req.smiles
                       /\ store[i].name = last.req.name
                       /\ store[i].description = last.req.description
                  ELSE store[i] = last.pre[i]

\* an update that keeps the record's own smiles and changes its name, in a
\* store that holds another record too
C7_Witness ==
    /\ last.op = "update"
    /\ last.err = "ok"
    /\ Len(last.pre) = 2
    /\ \E r \in WithId(last.pre, last.id) :
          r.smiles = last.req.smiles /\ r.name # last.req.name

(* C8 *)

\* C8, as stated: whenever get_substructures of a valid query returns, it
\* returns exactly the stored records that the query contains and that do
\* not contain the query.
C8_Original ==
    (last.op = "get_substructures" /\ is_valid_smiles(last.arg)
        /\ last.err = "ok")
    => Range(last.value) =
          {r \in Range(last.pre) :
              /\ HasSubstructMatch(last.arg, r.smiles)
              /\ ~HasSubstructMatch(r.smiles, last.arg)}

\* C8, amended: for a valid query, when every stored notation parses,
\* get_substructures returns exactly the stored records that the query
\* contains, each once, whether or not they contain the query in turn; when
\* some stored notation does not parse, it raises and returns nothing.
C8_Substructures ==
    (last.op = "get_substructures" /\ is_valid_smiles(last.arg))
    => /\ store = last.pre
       /\ IF AllParse(last.pre)
          THEN /\ last.err = "ok"
               /\ Range(last.value) =
                     {r \in Range(last.pre) : HasSubstructMatch(last.arg, r.smiles)}
               /\ Len(last.value) = Cardinality(Range(last.value))
          ELSE last.err # "ok" /\ last.value = <<>>

\* a search that returns a record with the query's own notation and leaves
\* out a stored record the query does not contain
C8_Witness ==
    /\ last.op = "get_substructures"
    /\ last.err = "ok"
    /\ Len(last.pre) = 2
    /\ \E r \in Range(last.value) : r.smiles = last.arg
    /\ Len(last.value) = 1

(* C9 *)

\* C9: when a stored record has the notation of a valid query,
\* get_substructures of that query returns that record.
C9_SelfMatch ==
    (last.op = "get_substructures" /\ is_valid_smiles(last.arg)
        /\ last.arg \in SmilesOf(last.pre))
    => /\ last.err = "ok"
       /\ \E r \in Range(last.value) : r.smiles = last.arg

(* C10 *)

\* C10: for a valid query, get_is_substructure_of returns exactly the stored
\* records that contain the query, out of the whole store; and where a
\* stored pattern P is contained in a stored target T that P does not
\* contain, get_is_substructure_of(P) returns T, get_substructures(T)
\* returns P and get_substructures(P) does not return T.
C10_Containers ==
    /\ (last.op = "get_is_substructure_of" /\ is_valid_smiles(last.arg))
       => /\ last.err = "ok"
          /\ Range(last.value) =
                {r \in Range(last.pre) : HasSubstructMatch(r.smiles, last.arg)}
    /\ \A p, t \in Range(store) :
          (/\ is_valid_smiles(p.smiles) /\ is_valid_smiles(t.smiles)
           /\ HasSubstructMatch(t.smiles, p.smiles)
           /\ ~HasSubstructMatch(p.smiles, t.smiles))
          => /\ t \in Range(get_is_substructure_of(store, p.smiles).value)
             /\ p \in Range(get_substructures(store, t.smiles).value)
             /\ t \notin Range(get_substructures(store, p.smiles).value)

(* C11 *)

\* C11: get_substructures and get_is_substructure_of of a query the
\* validator rejects raise InvalidSmiles, return no record and leave the
\* store as it was; of a valid query, they leave the store as it was.
C11_InvalidQuery ==
    (last.op \in {"get_substructures", "get_is_substructure_of"})
    => /\ store = last.pre
       /\ ~is_valid_smiles(last.arg)
          => last.err = "InvalidSmiles" /\ last.value = <<>>

\* a search of an unparsable query in a store that holds a record
C11_Witness ==
    /\ last.op = "get_is_substructure_of"
    /\ ~is_valid_smiles(last.arg)
    /\ last.pre # <<>>
    /\ AllParse(last.pre)

(* C15 *)

\* C15: the records a save or an import adds have ids that no stored record
\* has and no deleted record had, different from each other; no two stored
\* records share an id; and every call but a delete leaves each record that
\* was stored at its place with its id.
C15_IdsFresh ==
    /\ \A k \in (Len(last.pre) + 1)..Len(store) :
          /\ store[k].molecule_id \notin IdsOf(last.pre) \cup deleted
          /\ \A j \in (Len(last.pre) + 1)..Len(store) :
                j # k => store[j].molecule_id # store[k].molecule_id
    /\ \A i, j \in DOMAIN store :
          i # j => store[i].molecule_id # store[j].molecule_id
    /\ last.op # "delete"
       => \A i \in DOMAIN last.pre :
             i \in DOMAIN store /\ store[i].molecule_id = last.pre[i].molecule_id

\* a record is saved into a store that a delete had emptied
C15_Witness ==
    /\ last.op = "save"
    /\ last.err = "ok"
    /\ last.pre = <<>>
    /\ deleted # {}

(* C19 *)

\* sub is full with some of its elements left out
IsSubsequence(sub, full) ==
    \E f \in [DOMAIN sub -> DOMAIN full] :
        /\ \A i \in DOMAIN sub : sub[i] = full[f[i]]
        /\ \A i, j \in DOMAIN sub : i < j => f[i] < f[j]

\* C19: what get_substructures and get_is_substructure_of return is the
\* store's sequence of records with some records left out: the matches in
\* the order of the store, each once.
C19_ScanOrder ==
    (last.op \in {"get_substructures", "get_is_substructure_of"})
    => IsSubsequence(last.value, last.pre)

\* a search that returns two records
C19_Witness ==
    /\ last.op = "get_is_substructure_of"
    /\ last.err = "ok"
    /\ Len(last.value) = 2

(* C12 *)

\* C12: an import whose file has no header, or a header that lacks a
\* required column, raises InvalidCsvHeaderColumns naming the columns that
\* are missing, and leaves the store as it was.
C12_HeaderRejected ==
    (last.op = "process_csv_file"
        /\ (~last.header.present \/ ~(required_columns \subseteq last.header.columns)))
    => /\ last.err = "InvalidCsvHeaderColumns"
       /\ last.missing = required_columns \ last.header.columns
       /\ store = last.pre

(* C13 *)

\* the rows of the file that the import is to store: those whose notation
\* parses, is not in the store and is not that of a row before them
AcceptedRows(st, rows) ==
    {i \in DOMAIN rows :
        /\ is_valid_smiles(rows[i].smiles)
        /\ rows[i].smiles \notin SmilesOf(st)
        /\ \A j \in 1..(i - 1) : rows[j].smiles # rows[i].smiles}

\* the k-th of a set of row numbers
KthOf(S, k) == CHOOSE i \in S : Cardinality({j \in S : j <= i}) = k

\* C13: an import with both required columns in its header does not raise;
\* it leaves the stored records as they were and appends one record for each
\* row whose notation parses and is neither in the store nor that of an
\* earlier row, in the order of the file, with the row's smiles and name;
\* the count it returns is the number of records appended.
C13_ImportRows ==
    (last.op = "process_csv_file" /\ last.header.present
        /\ required_columns \subseteq last.header.columns)
    => LET rows == last.value
           acc == AcceptedRows(last.pre, rows)
       IN  /\ last.err = "ok"
           /\ last.count = Cardinality(acc)
           /\ Len(store) = Len(last.pre) + last.count
           /\ SubSeq(store, 1, Len(last.pre)) = last.pre
           /\ \A k \in 1..Cardinality(acc) :
                 LET r == store[Len(last.pre) + k]
                     row == rows[KthOf(acc, k)]
                 IN  /\ r.smiles = row.smiles
                     /\ r.name = row.name
                     /\ r.description = None

\* a file of two rows, the first of which fails, whose second row is stored
C13_Witness ==
    /\ last.op = "process_csv_file"
    /\ last.err = "ok"
    /\ Len(last.value) = 2
    /\ ~is_valid_smiles(last.value[1].smiles)
    /\ last.count = 1
    /\ last.pre # <<>>

(* C14 *)

\* C14, as stated: for a store of more than N records, page 0 and page 1 of
\* size N share no record, and page 0 followed by page 1 is the whole store
\* in insertion order.
C14_Original ==
    (last.op = "find_all" /\ last.page = 0 /\ Len(last.pre) > last.page_size)
    => LET page0 == last.value
           page1 == find_all(store, 1, last.page_size).value
       IN  /\ Range(page0) \cap Range(page1) = {}
           /\ page0 \o page1 = RepoFindAll(store)

\* C14, amended: for a store of more than N records, page 0 and page 1 of
\* size N share no record, and page 0 followed by page 1 is the first 2N
\* records of the store in insertion order: the whole store when it holds
\* at most 2N records.
C14_Pages ==
    (last.op = "find_all" /\ last.page = 0 /\ Len(last.pre) > last.page_size)
    => LET page0 == last.value
           page1 == find_all(store, 1, last.page_size).value
           all == RepoFindAll(store)
           n2 == 2 * last.page_size
       IN  /\ store = last.pre
           /\ Range(page0) \cap Range(page1) = {}
           /\ Len(page0) = last.page_size
           /\ page0 \o page1 =
                 IF Len(all) <= n2 THEN all ELSE SubSeq(all, 1, n2)

\* page 0 of size 1 of a store of three records
C14_Witness ==
    /\ last.op = "find_all"
    /\ last.page = 0
    /\ last.page_size = 1
    /\ Len(last.pre) = 3

(* C16 *)

C17_Original ==
    \A p \in Procs :
        calls[p].pc = "done" => calls[p].opened = 1 /\ calls[p].open = 0

\* C17, amended: a call of save, find_all, get_substructures or
\* get_is_substructure_of that has ended opened one session; a call of
\* find_by_id, update or delete that has ended opened two, its own and the
\* one of exists_by_id; whatever way the call ended, it has no session open;
\* a call that has not ended has its own session open.
C17_Sessions ==
    \A p \in Procs :
        /\ calls[p].pc = "done"
           => /\ calls[p].open = 0
              /\ calls[p].opened =
                    IF calls[p].op \in {"find_by_id", "update", "delete"}
                    THEN 2 ELSE 1
        /\ InFlight(calls[p]) => calls[p].open = 1
        /\ calls[p].pc = "idle" => calls[p].open = 0

\* a find_by_id that ended by an unexpected fault
C17_Witness ==
    \E p \in Procs :
        /\ calls[p].pc = "done"
        /\ calls[p].op = "find_by_id"
        /\ calls[p].err = "AttributeError"
        /\ calls[p].open = 0

(* C18 *)

\* C18: a find_by_id, update or delete that has ended, and was not refused
\* at its write for a duplicate, ended normally or with UnknownIdentifier
\* (or, for update, DuplicateSmiles): never with an untyped fault.
C18_TypedOutcomes ==
    \A p \in Procs :
        (/\ calls[p].pc = "done"
         /\ calls[p].op \in {"find_by_id", "update", "delete"}
         /\ ~calls[p].conflict)
        => calls[p].err \in {"ok", "UnknownIdentifier", "DuplicateSmiles"}

====
